---- MODULE Spec2Model ----
(***************************************************************************)
(* MultiPartFormDataBuilder (src/src/lib.rs): a builder that accumulates   *)
(* file and text fields and serialises them into a multipart/form-data     *)
(* body plus its Content-Type header.                                      *)
(*                                                                         *)
(* Strings and byte buffers are sequences of bytes (0..255), so that       *)
(* format!(), as_bytes() and Vec::extend are concatenations of the bytes   *)
(* the program really emits.                                               *)
(***************************************************************************)
EXTENDS Integers, Sequences, FiniteSets, TLC

VARIABLES
    files,  \* self.files: Vec<(name, file_name, content_type, path)>
    texts,  \* self.texts: Vec<(name, value, content_type)>
    fs,     \* the filesystem std::fs::read sees: path -> io::Result<Vec<u8>>
    last,   \* the step taken last: the operation and its arguments
    ret,    \* what that step handed back to the caller
    prev    \* header value of the build before it, "" when a field was added since

vars == <<files, texts, fs, last, ret, prev>>

(***************************************************************************)
(* Bounds                                                                  *)
(***************************************************************************)
\* most fields (files plus texts) registered on the builder
MaxFields == 3

(***************************************************************************)
(* String literals of the source, as their UTF-8 bytes                     *)
(***************************************************************************)
\* "--"
DASHES == <<45, 45>>
\* "\r\n"
CRLF == <<13, 10>>
\* "Content-Disposition: form-data; name=\""
DISPOSITION == <<67, 111, 110, 116, 101, 110, 116, 45, 68, 105, 115, 112, 111, 115, 105, 116, 105, 111, 110, 58, 32, 102, 111, 114, 109, 45, 100, 97, 116, 97, 59, 32, 110, 97, 109, 101, 61, 34>>
\* "\"; filename=\""
FILENAME == <<34, 59, 32, 102, 105, 108, 101, 110, 97, 109, 101, 61, 34>>
\* "\"\r\n"
QUOTE_CRLF == <<34, 13, 10>>
\* "Content-Type: "
CONTENT_TYPE == <<67, 111, 110, 116, 101, 110, 116, 45, 84, 121, 112, 101, 58, 32>>
\* "Content-Length: "
CONTENT_LENGTH == <<67, 111, 110, 116, 101, 110, 116, 45, 76, 101, 110, 103, 116, 104, 58, 32>>
\* "\r\n\r\n"
CRLF_CRLF == <<13, 10, 13, 10>>
\* "--\r\n"
DASHES_CRLF == <<45, 45, 13, 10>>
\* "multipart/form-data; boundary="
MULTIPART == <<109, 117, 108, 116, 105, 112, 97, 114, 116, 47, 102, 111, 114, 109, 45, 100, 97, 116, 97, 59, 32, 98, 111, 117, 110, 100, 97, 114, 121, 61>>
\* "Content-Type"
HEADER_NAME == <<67, 111, 110, 116, 101, 110, 116, 45, 84, 121, 112, 101>>
\* "text/plain"
TEXT_PLAIN == <<116, 101, 120, 116, 47, 112, 108, 97, 105, 110>>

(***************************************************************************)
(* Uuid::new_v4().to_string()                                              *)
(***************************************************************************)
\* the values new_v4() may return here: 16 random bytes with the version
\* nibble 4 and the variant bits 10
Uuids == {
    <<63, 168, 95, 100, 87, 23, 69, 98, 179, 252, 44, 150, 63, 102, 175, 166>>,
    <<0, 17, 34, 51, 68, 85, 70, 119, 136, 153, 170, 187, 204, 221, 238, 255>> }

\* one lowercase hexadecimal digit
hex_digit(n) == IF n < 10 THEN 48 + n ELSE 87 + n

\* the two digits of one byte
hex_byte(b) == <<hex_digit(b \div 16), hex_digit(b % 16)>>

RECURSIVE hyphenated(_, _)
\* bytes i..16 of the uuid in the 8-4-4-4-12 form
hyphenated(uuid, i) ==
    IF i > Len(uuid) THEN <<>>
    ELSE hex_byte(uuid[i])
         \o (IF i \in {4, 6, 8, 10} THEN <<45>> ELSE <<>>)
         \o hyphenated(uuid, i + 1)

\* Uuid's Display: 36 characters
to_string(uuid) == hyphenated(uuid, 1)

(***************************************************************************)
(* format!("{}", usize)                                                    *)
(***************************************************************************)
RECURSIVE decimal(_)
decimal(n) ==
    IF n < 10 THEN <<48 + n>>
    ELSE decimal(n \div 10) \o <<48 + (n % 10)>>

(***************************************************************************)
(* Inputs the callers and the environment draw from                        *)
(***************************************************************************)
\* "name"
S_name == <<110, 97, 109, 101>>
\* "sample"
S_sample == <<115, 97, 109, 112, 108, 101>>
\* "some_name"
S_some_name == <<115, 111, 109, 101, 95, 110, 97, 109, 101>>
\* "image/png"
S_image_png == <<105, 109, 97, 103, 101, 47, 112, 110, 103>>
\* "sample.png"
S_sample_png == <<115, 97, 109, 112, 108, 101, 46, 112, 110, 103>>

\* the token one of the uuids renders to; field content may hold it
Token == to_string(<<63, 168, 95, 100, 87, 23, 69, 98, 179, 252, 44, 150, 63, 102, 175, 166>>)

\* "application/octet-stream"
S_octet_stream == <<97, 112, 112, 108, 105, 99, 97, 116, 105, 111, 110, 47, 111, 99, 116, 101, 116, 45, 115, 116, 114, 101, 97, 109>>
\* "other.bin"
S_other_bin == <<111, 116, 104, 101, 114, 46, 98, 105, 110>>

\* (name, value) of with_text: the field of the test, the same name with an
\* empty value, and a value that reads as a delimiter
TextInputs == {
    <<S_name, S_some_name>>,
    <<S_name, <<>>>>,
    <<S_sample, DASHES \o Token \o CRLF>> }

Paths == {"tests/sample.png", "tests/other.bin"}

\* (path, name, content_type, file_name) of with_file: the file of the test,
\* and a second file under the same form name
FileInputs == {
    <<"tests/sample.png", S_sample, S_image_png, S_sample_png>>,
    <<"tests/other.bin", S_sample, S_octet_stream, S_other_bin>> }

\* an empty file, and a binary file that holds a closing delimiter
FileData == {<<>>, <<137, 80, 78, 71, 13, 10>> \o DASHES \o Token \o DASHES_CRLF}

\* io::Result<Vec<u8>>
Ok(data) == [ok |-> TRUE, data |-> data]
Err(kind) == [ok |-> FALSE, err |-> kind]
FsEntries == {Ok(d) : d \in FileData} \cup {Err("NotFound"), Err("PermissionDenied")}

(***************************************************************************)
(* build(): the pieces it formats                                          *)
(***************************************************************************)
\* variant: every part opened with the closing form of the delimiter
delimiter_dashed(boundary) == DASHES \o boundary \o DASHES_CRLF

\* format!("--{}\r\n", boundary)
delimiter(boundary) == DASHES \o boundary \o CRLF

\* format!("Content-Disposition: form-data; name=\"{}\"; filename=\"{}\"\r\n", file.0, file.1)
file_disposition(file) == DISPOSITION \o file[1] \o FILENAME \o file[2] \o QUOTE_CRLF

\* format!("Content-Disposition: form-data; name=\"{}\"\r\n", text.0)
text_disposition(text) == DISPOSITION \o text[1] \o QUOTE_CRLF

\* format!("Content-Type: {}\r\n", content_type)
content_type_line(content_type) == CONTENT_TYPE \o content_type \o CRLF

\* variant: the length counts the "\r\n" that follows the content
content_length_line_crlf(data) == CONTENT_LENGTH \o decimal(Len(data) + 2) \o CRLF_CRLF

\* format!("Content-Length: {}\r\n\r\n", data.len())
content_length_line(data) == CONTENT_LENGTH \o decimal(Len(data)) \o CRLF_CRLF

\* variant: the closing delimiter without its final two dashes
closing_delimiter_undashed(boundary) == DASHES \o boundary \o CRLF

\* format!("--{}--\r\n", boundary)
closing_delimiter(boundary) == DASHES \o boundary \o DASHES_CRLF

\* variant: the boundary parameter in quotes
header_value_quoted(boundary) == MULTIPART \o <<34>> \o boundary \o <<34>>

\* format!("multipart/form-data; boundary={}", boundary)
header_value(boundary) == MULTIPART \o boundary

\* variant: an unreadable file counts as an empty one (unwrap_or_default)
read_or_default(path) == IF fs[path].ok THEN fs[path] ELSE [ok |-> TRUE, data |-> <<>>]

\* std::fs::read(file.3.as_ref())
read(path) == fs[path]

RECURSIVE extend_files(_, _, _)
\* the loop over self.files; .unwrap() panics on the first Err and drops body
extend_files(body, fl, boundary) ==
    IF fl = <<>> THEN [ok |-> TRUE, body |-> body]
    ELSE LET file == Head(fl)
             data == read(file[4])
         IN  IF ~data.ok THEN [ok |-> FALSE, body |-> <<>>]
             ELSE extend_files(body \o delimiter(boundary)
                                    \o file_disposition(file)
                                    \o content_type_line(file[3])
                                    \o content_length_line(data.data)
                                    \o data.data
                                    \o CRLF,
                               Tail(fl), boundary)

RECURSIVE extend_texts(_, _, _)
\* the loop over self.texts
extend_texts(body, tl, boundary) ==
    IF tl = <<>> THEN body
    ELSE LET text == Head(tl)
             data == text[2]
         IN  extend_texts(body \o delimiter(boundary)
                               \o text_disposition(text)
                               \o content_type_line(text[3])
                               \o content_length_line(data)
                               \o data
                               \o CRLF,
                          Tail(tl), boundary)

\* variant: the texts are serialised before the files
build_result_texts_first(boundary) ==
    LET f == extend_files(extend_texts(<<>>, texts, boundary), files, boundary)
    IN  IF ~f.ok THEN [kind |-> "panic"]
        ELSE [kind   |-> "ok",
              header |-> <<HEADER_NAME, header_value(boundary)>>,
              body   |-> f.body \o closing_delimiter(boundary)]

\* p occurs in s from position i on
RECURSIVE contains_from(_, _, _)
contains_from(s, p, i) ==
    IF i + Len(p) - 1 > Len(s) THEN FALSE
    ELSE IF SubSeq(s, i, i + Len(p) - 1) = p THEN TRUE
    ELSE contains_from(s, p, i + 1)

\* variant: a build refuses a boundary that occurs in the content of a field
build_result_checked(boundary) ==
    LET f == extend_files(<<>>, files, boundary)
    IN  IF ~f.ok THEN [kind |-> "panic"]
        ELSE IF \/ \E j \in 1..Len(texts) : contains_from(texts[j][2], boundary, 1)
                \/ \E i \in 1..Len(files) : contains_from(fs[files[i][4]].data, boundary, 1)
        THEN [kind |-> "panic"]
        ELSE [kind   |-> "ok",
              header |-> <<HEADER_NAME, header_value(boundary)>>,
              body   |-> extend_texts(f.body, texts, boundary)
                         \o closing_delimiter(boundary)]

\* what build() hands back with this boundary: the pair, or a panic
\* (the unwinding drops body; a caller that catches the panic still holds the
\* builder, so further steps stay possible, and one that aborts just stops)
build_result(boundary) ==
    LET f == extend_files(<<>>, files, boundary)
    IN  IF ~f.ok THEN [kind |-> "panic"]
        ELSE [kind   |-> "ok",
              header |-> <<HEADER_NAME, header_value(boundary)>>,
              body   |-> extend_texts(f.body, texts, boundary)
                         \o closing_delimiter(boundary)]

(***************************************************************************)
(* Operations                                                              *)
(***************************************************************************)
\* the header value of the build just before, kept while nothing is registered
carried == IF ret.kind = "ok" THEN ret.header[2] ELSE prev

\* MultiPartFormDataBuilder::new()
new ==
    /\ files' = <<>>
    /\ texts' = <<>>
    /\ last' = [op |-> "new", args |-> <<>>]
    /\ ret' = [kind |-> "self"]
    /\ prev' = <<>>
    /\ UNCHANGED fs

\* with_text(name, value)
with_text(name, value) ==
    /\ Len(files) + Len(texts) < MaxFields
    /\ texts' = Append(texts, <<name, value, TEXT_PLAIN>>)
    /\ last' = [op |-> "with_text", args |-> <<name, value>>]
    /\ ret' = [kind |-> "self"]
    /\ prev' = <<>>
    /\ UNCHANGED <<files, fs>>

\* variant: a path that cannot be read is not registered
with_file_checked(path, name, content_type, file_name) ==
    /\ Len(files) + Len(texts) < MaxFields
    /\ files' = IF fs[path].ok
                THEN Append(files, <<name, file_name, content_type, path>>)
                ELSE files
    /\ last' = [op |-> "with_file", args |-> <<path, name, content_type, file_name>>]
    /\ ret' = [kind |-> "self"]
    /\ prev' = <<>>
    /\ UNCHANGED <<texts, fs>>

\* with_file(path, name, content_type, file_name)
with_file(path, name, content_type, file_name) ==
    /\ Len(files) + Len(texts) < MaxFields
    /\ files' = Append(files, <<name, file_name, content_type, path>>)
    /\ last' = [op |-> "with_file", args |-> <<path, name, content_type, file_name>>]
    /\ ret' = [kind |-> "self"]
    /\ prev' = <<>>
    /\ UNCHANGED <<texts, fs>>

\* variant: the texts are moved out of the builder as they are serialised
build_draining ==
    \E uuid \in Uuids :
        /\ ret' = build_result(to_string(uuid))
        /\ last' = [op |-> "build", args |-> <<uuid>>]
        /\ prev' = carried
        /\ texts' = <<>>
        /\ UNCHANGED <<files, fs>>

\* variant: the boundary of the build before is used again
build_cached ==
    \E uuid \in Uuids :
        /\ ret' = build_result(IF carried # <<>>
                               THEN SubSeq(carried, Len(MULTIPART) + 1, Len(carried))
                               ELSE to_string(uuid))
        /\ last' = [op |-> "build", args |-> <<uuid>>]
        /\ prev' = carried
        /\ UNCHANGED <<files, texts, fs>>

\* build(&self), with the uuid new_v4() returned
build ==
    \E uuid \in Uuids :
        /\ ret' = build_result(to_string(uuid))
        /\ last' = [op |-> "build", args |-> <<uuid>>]
        /\ prev' = carried
        /\ UNCHANGED <<files, texts, fs>>

\* the environment creates, rewrites, removes or locks a file
fs_change ==
    \E path \in Paths, entry \in FsEntries :
        /\ fs[path] # entry
        /\ fs' = [fs EXCEPT ![path] = entry]
        /\ last' = [op |-> "fs_change", args |-> <<path>>]
        /\ ret' = [kind |-> "none"]
        /\ prev' = carried
        /\ UNCHANGED <<files, texts>>

Init ==
    /\ files = <<>>
    /\ texts = <<>>
    /\ fs = [path \in Paths |-> Err("NotFound")]
    /\ last = [op |-> "new", args |-> <<>>]
    /\ ret = [kind |-> "self"]
    /\ prev = <<>>

Next ==
    \/ new
    \/ \E t \in TextInputs : with_text(t[1], t[2])
    \/ \E f \in FileInputs : with_file(f[1], f[2], f[3], f[4])
    \/ build
    \/ fs_change

Spec == Init /\ [][Next]_vars

(***************************************************************************)
(* Reading a body back: what a receiver that follows the Content-Length    *)
(* of each part sees.  Used only to state the properties below.            *)
(***************************************************************************)
starts_at(s, i, p) ==
    /\ i >= 1
    /\ i + Len(p) - 1 <= Len(s)
    /\ SubSeq(s, i, i + Len(p) - 1) = p

\* p occurs somewhere in s
occurs(p, s) == \E i \in 1..Len(s) : starts_at(s, i, p)

RECURSIVE find_crlf(_, _)
\* the first position >= i where "\r\n" starts in s, 0 when there is none
find_crlf(s, i) ==
    IF i + 1 > Len(s) THEN 0
    ELSE IF s[i] = 13 /\ s[i + 1] = 10 THEN i
    ELSE find_crlf(s, i + 1)

RECURSIVE number(_)
\* the value of a decimal numeral, -1 when it is none
number(d) ==
    IF d = <<>> THEN -1
    ELSE LET c == d[Len(d)]
             rest == SubSeq(d, 1, Len(d) - 1)
         IN  IF c < 48 \/ c > 57 THEN -1
             ELSE IF rest = <<>> THEN c - 48
             ELSE IF number(rest) < 0 THEN -1
             ELSE 10 * number(rest) + (c - 48)

Malformed == <<[ok |-> FALSE]>>

RECURSIVE parts_from(_, _, _)
\* the parts of body s from position i on, delimited by boundary b: each part
\* is its two header lines, the number of its Content-Length line and the
\* bytes after the blank line; the last element is not ok when the bytes
\* do not read as parts followed by one closing delimiter at the very end
parts_from(s, i, b) ==
    IF starts_at(s, i, DASHES \o b \o DASHES \o CRLF)
    THEN IF i + Len(b) + 5 = Len(s) THEN <<>> ELSE Malformed
    ELSE IF ~starts_at(s, i, DASHES \o b \o CRLF) THEN Malformed
    ELSE LET h1 == i + Len(b) + 4
             e1 == find_crlf(s, h1)
             h2 == e1 + 2
             e2 == IF e1 = 0 THEN 0 ELSE find_crlf(s, h2)
             h3 == e2 + 2
             e3 == IF e2 = 0 THEN 0 ELSE find_crlf(s, h3)
             n  == IF e3 = 0 \/ ~starts_at(s, h3, CONTENT_LENGTH) THEN -1
                   ELSE number(SubSeq(s, h3 + Len(CONTENT_LENGTH), e3 - 1))
             d  == e3 + 4
         IN  IF n < 0 \/ ~starts_at(s, e3, CRLF \o CRLF) \/ ~starts_at(s, d + n, CRLF)
             THEN Malformed
             ELSE <<[ok          |-> TRUE,
                     disposition |-> SubSeq(s, h1, e1 - 1),
                     type        |-> SubSeq(s, h2, e2 - 1),
                     length      |-> n,
                     data        |-> SubSeq(s, d, d + n - 1)]>>
                  \o parts_from(s, d + n + 2, b)

\* the boundary a header value names
boundary_of(value) == SubSeq(value, Len(MULTIPART) + 1, Len(value))

\* the step just taken was a build() that returned
Built == last.op = "build" /\ ret.kind = "ok"

\* the boundary and the parts of the pair just returned
RetBoundary == boundary_of(ret.header[2])
PartsOf(r) == parts_from(r.body, 1, boundary_of(r.header[2]))
RetParts == PartsOf(ret)
WellFormed(parts) == \A k \in 1..Len(parts) : parts[k].ok

\* every registered path can be read now
Readable(fl, fsys) == \A i \in 1..Len(fl) : fsys[fl[i][4]].ok
AllReadable == Readable(files, fs)

(***************************************************************************)
(* Properties                                                              *)
(***************************************************************************)

\* C1: a build that returns gives the header name "Content-Type" and the value
\* "multipart/form-data; boundary=" followed by the token that delimits every
\* part of the returned body and closes it.
C1_HeaderCarriesBoundary ==
    Built =>
        LET parts == RetParts
        IN  /\ ret.header[1] = HEADER_NAME
            /\ starts_at(ret.header[2], 1, MULTIPART)
            /\ Len(RetBoundary) = 36
            /\ WellFormed(parts)
            /\ Len(parts) = Len(files) + Len(texts)
            /\ starts_at(ret.body, Len(ret.body) - Len(RetBoundary) - 5,
                         DASHES \o RetBoundary \o DASHES \o CRLF)

\* C1: reached for the empty builder and for one with a file and a text.
C1_Witness ==
    /\ Built
    /\ Len(files) >= 1
    /\ Len(texts) >= 1

\* the parts read as the fields fl then tl, each exactly once and in order:
\* headers as registered, the stated length and the bytes those of the field
Emitted(parts, fl, tl, fsys) ==
    /\ WellFormed(parts)
    /\ Len(parts) = Len(fl) + Len(tl)
    /\ \A i \in 1..Len(fl) :
        /\ parts[i].disposition =
               DISPOSITION \o fl[i][1] \o FILENAME \o fl[i][2] \o <<34>>
        /\ parts[i].type = CONTENT_TYPE \o fl[i][3]
        /\ parts[i].data = fsys[fl[i][4]].data
    /\ \A j \in 1..Len(tl) :
        /\ parts[Len(fl) + j].disposition = DISPOSITION \o tl[j][1] \o <<34>>
        /\ parts[Len(fl) + j].type = CONTENT_TYPE \o TEXT_PLAIN
        /\ parts[Len(fl) + j].data = tl[j][2]

\* C2: with_text appends to the texts and with_file to the files, each leaving
\* the other list alone, and a build that returns emits every registered file
\* in registration order and then every registered text in registration
\* order, each exactly once, fields of the same name included.
C2_FilesThenTexts ==
    /\ [][ /\ last'.op = "with_text" =>
                 /\ texts' = Append(texts, <<last'.args[1], last'.args[2], TEXT_PLAIN>>)
                 /\ files' = files
           /\ last'.op = "with_file" =>
                 /\ files' = Append(files, <<last'.args[2], last'.args[4],
                                             last'.args[3], last'.args[1]>>)
                 /\ texts' = texts
         ]_vars
    /\ [](Built => LET parts == RetParts IN Emitted(parts, files, texts, fs))

\* C2: a build of one file and two texts that share a name.
C2_Witness ==
    /\ Built
    /\ Len(files) >= 1
    /\ Len(texts) >= 2
    /\ texts[1][1] = texts[2][1]
    /\ texts[1][2] # texts[2][2]

\* C3: in every part the number of the Content-Length line is the byte count
\* of the content after the blank line, the content is the registered value
\* or the bytes the file holds at the build, and "\r\n" follows it; an empty
\* value or file gives Content-Length: 0.
C3_ContentLength ==
    Built =>
        LET parts == RetParts
        IN  /\ WellFormed(parts)
            /\ Len(parts) = Len(files) + Len(texts)
            /\ \A i \in 1..Len(files) :
                /\ parts[i].length = Len(fs[files[i][4]].data)
                /\ parts[i].data = fs[files[i][4]].data
            /\ \A j \in 1..Len(texts) :
                /\ parts[Len(files) + j].length = Len(texts[j][2])
                /\ parts[Len(files) + j].data = texts[j][2]

\* C3: a build with an empty file, a file of more than nine bytes and an
\* empty text value.
C3_Witness ==
    /\ Built
    /\ \E i \in 1..Len(files) : fs[files[i][4]].data = <<>>
    /\ \E i \in 1..Len(files) : Len(fs[files[i][4]].data) > 9
    /\ \E j \in 1..Len(texts) : texts[j][2] = <<>>

\* C4: build() on a builder without fields returns, the body is exactly
\* "--<boundary>--\r\n", and the header value carries that boundary.
C4_EmptyBuilder ==
    (last.op = "build" /\ files = <<>> /\ texts = <<>>) =>
        /\ ret.kind = "ok"
        /\ ret.header[2] = MULTIPART \o to_string(last.args[1])
        /\ ret.body = DASHES \o to_string(last.args[1]) \o DASHES \o CRLF

\* C4: a build of the empty builder.
C4_Witness ==
    /\ last.op = "build"
    /\ files = <<>>
    /\ texts = <<>>

\* s ends with p
ends_with(s, p) == starts_at(s, Len(s) - Len(p) + 1, p)

\* C5: every returned body ends with "--<boundary>--\r\n", put once after the
\* last part, and every part opens with "--<boundary>\r\n".
C5_ClosingDelimiter ==
    Built =>
        LET b == RetBoundary
            closing == DASHES \o b \o DASHES \o CRLF
            parts == RetParts
        IN  /\ ends_with(ret.body, closing)
            /\ ~ends_with(SubSeq(ret.body, 1, Len(ret.body) - Len(closing)), closing)
            /\ ~ends_with(SubSeq(ret.body, 1, Len(ret.body) - Len(closing)),
                          DASHES \o b \o CRLF)
            /\ WellFormed(parts)
            /\ Len(parts) = Len(files) + Len(texts)
            /\ Len(parts) > 0 => starts_at(ret.body, 1, DASHES \o b \o CRLF)

\* C5: a build with parts, the last of them a text.
C5_Witness ==
    /\ Built
    /\ Len(files) >= 1
    /\ Len(texts) >= 1
    /\ Len(RetParts) = Len(files) + Len(texts)

\* C6: when a registered path cannot be read at the build, build() panics and
\* hands back no pair, whatever readable files come first and whatever texts
\* are registered.
C6_UnreadablePanics ==
    (last.op = "build" /\ ~AllReadable) =>
        /\ ret.kind = "panic"
        /\ DOMAIN ret = {"kind"}

\* C6: a build where the first file is readable, the second is not, and a
\* text is registered.
C6_Witness ==
    /\ last.op = "build"
    /\ Len(files) >= 2
    /\ fs[files[1][4]].ok
    /\ ~fs[files[2][4]].ok
    /\ Len(texts) >= 1

\* C7: build() leaves both lists as they were; a build right after a build
\* emits the same parts in the same order; and a registration after a build
\* appends to its list.
C7_BuildLeavesBuilder ==
    [][ /\ last'.op = "build" =>
              /\ files' = files
              /\ texts' = texts
        /\ (Built /\ last'.op = "build" /\ ret'.kind = "ok") =>
              PartsOf(ret') = PartsOf(ret)
        /\ (last.op = "build" /\ last'.op = "with_text") =>
              texts' = Append(texts, <<last'.args[1], last'.args[2], TEXT_PLAIN>>)
        /\ (last.op = "build" /\ last'.op = "with_file") =>
              files' = Append(files, <<last'.args[2], last'.args[4],
                                       last'.args[3], last'.args[1]>>)
      ]_vars

\* C7: a second build of a builder with a file and a text, nothing registered
\* since the first.
C7_Witness ==
    /\ Built
    /\ prev # <<>>
    /\ Len(files) >= 1
    /\ Len(texts) >= 1

\* C8 as stated: a build after a build, nothing registered between, never
\* returns the token of the earlier one.
C8_NeverSameToken ==
    (Built /\ prev # <<>>) => ret.header[2] # prev

\* C8 amended: the boundary of a build is the rendering of the uuid that this
\* build drew, so it repeats the earlier token only when the generator
\* returned the same uuid again.
C8_BoundaryIsOwnDraw ==
    Built =>
        /\ RetBoundary = to_string(last.args[1])
        /\ prev # <<>> =>
              (ret.header[2] = prev <=> to_string(last.args[1]) = boundary_of(prev))

\* C8: a second build whose token differs from the first's.
C8_Witness ==
    /\ Built
    /\ prev # <<>>
    /\ ret.header[2] # prev

\* C9: with_file appends and returns the builder without looking at the
\* filesystem, and a build returns exactly when every registered path is
\* readable at that build, embedding the bytes the files hold then.
C9_ReadAtBuild ==
    /\ [][ last'.op = "with_file" =>
                 /\ files' = Append(files, <<last'.args[2], last'.args[4],
                                             last'.args[3], last'.args[1]>>)
                 /\ ret'.kind = "self"
                 /\ fs' = fs
         ]_vars
    /\ [](last.op = "build" =>
             /\ ret.kind = "ok" <=> AllReadable
             /\ ret.kind = "ok" =>
                   LET parts == RetParts
                   IN  /\ WellFormed(parts)
                       /\ Len(parts) >= Len(files)
                       /\ \A i \in 1..Len(files) :
                             parts[i].data = fs[files[i][4]].data)

\* C9: a build that panics after an earlier build of the same fields
\* returned: a file went away between the two.
C9_Witness ==
    /\ last.op = "build"
    /\ ret.kind = "panic"
    /\ prev # <<>>

\* the token b occurs in the content of a registered field
Collides(b) ==
    \/ \E j \in 1..Len(texts) : occurs(b, texts[j][2])
    \/ \E i \in 1..Len(files) : fs[files[i][4]].ok /\ occurs(b, fs[files[i][4]].data)

\* C10: a build whose files are all readable returns with the token it drew,
\* also when field content holds that token; the content is embedded as it
\* is, so the delimiter pattern stands inside a part's content.
C10_NoCollisionCheck ==
    (last.op = "build" /\ AllReadable) =>
        /\ ret.kind = "ok"
        /\ RetBoundary = to_string(last.args[1])
        /\ Collides(RetBoundary) =>
              LET parts == RetParts
              IN  /\ Emitted(parts, files, texts, fs)
                  /\ \E k \in 1..Len(parts) :
                        occurs(DASHES \o RetBoundary, parts[k].data)

\* C10: a build whose token stands in a text value and in a file's bytes.
C10_Witness ==
    /\ Built
    /\ \E j \in 1..Len(texts) : occurs(DASHES \o RetBoundary, texts[j][2])
    /\ \E i \in 1..Len(files) : occurs(DASHES \o RetBoundary, fs[files[i][4]].data)

====
